---- MODULE Spec2Model ----
(***************************************************************************)
(* parz: minimal parser combinators over a byte slice (src/src/lib.rs).    *)
(*                                                                         *)
(* A parser is a closure  &[u8] -> Step = (&[u8], Result<Output, Error>).  *)
(* The functions take, seq, opt, finish, tag, or, and build closures; the  *)
(* model keeps a closure as a record (its captured arguments) and gives    *)
(* the closure's body as an operator of the captured arguments and the     *)
(* input.  A slice is the sequence of its bytes.  A call that panics       *)
(* (slice::split_at with mid > len) does not return a Step: it is the      *)
(* outcome of kind "Panic", which unwinds through every enclosing closure. *)
(***************************************************************************)
EXTENDS Integers, Sequences, FiniteSets, TLC

\* ---------------------------------------------------------------- bounds
MaxLen == 3      \* longest input buffer
MaxCount == 4    \* largest count given to take (beyond MaxLen: a shortfall)
MaxSeq == 2      \* largest count given to seq
MaxDepth == 2    \* deepest nesting of combinators
MaxTail == 1     \* most bytes that follow an encoded number

\* The byte values the buffers of the combinator runs are drawn from.
Bytes == {1, 255}

RECURSIVE SeqsUpTo(_, _)
SeqsUpTo(S, n) ==
    IF n = 0 THEN {<<>>}
    ELSE LET shorter == SeqsUpTo(S, n - 1)
         IN  shorter \cup {Append(s, b) : s \in {t \in shorter : Len(t) = n - 1}, b \in S}

Inputs == SeqsUpTo(Bytes, MaxLen)

\* ------------------------------------------------------------------ Step
\* pub type Step<'a, Output, Error> = (&'a [u8], Result<Output, Error>);
\* calls: the calls the closure made to its child parsers, in order.
Ok(rest, x) == [rest |-> rest, kind |-> "Ok", val |-> x, calls |-> <<>>]
Err(rest, e) == [rest |-> rest, kind |-> "Err", val |-> e, calls |-> <<>>]
Panic == [rest |-> <<>>, kind |-> "Panic", val |-> <<>>, calls |-> <<>>]
NoStep == [rest |-> <<>>, kind |-> "None", val |-> <<>>, calls |-> <<>>]

Call(at, r) == [at |-> at, rest |-> r.rest, kind |-> r.kind, val |-> r.val]
WithCalls(r, cs) == [r EXCEPT !.calls = cs]

\* Option<T>: None is <<>>, Some(x) is <<x>>.
None == <<>>
Some(x) == <<x>>
ResultOk(r) == IF r.kind = "Ok" THEN Some(r.val) ELSE None

\* From/Into between error types: the caller's conversion keeps the error.
Into(e) == e

\* ------------------------------------------------------------ error types
ByteError == [err |-> "ByteError"]
TakeError(at) == [err |-> "TakeError", at |-> at]
SeqError(at, step, child_error) ==
    [err |-> "SeqError", at |-> at, step |-> step, child_error |-> child_error]
FinishError(at) == [err |-> "FinishError", at |-> at]
TagError(at) == [err |-> "TagError", at |-> at]
TagErrorFromTakeError(x) == TagError(x.at)
NumError(ty, at) == [err |-> ty.err, at |-> at]

\* ---------------------------------------------------------- slice methods
\* <[u8]>::split_at(mid): panics when mid > len.
split_at(s, mid) ==
    IF mid > Len(s) THEN [ok |-> FALSE, head |-> <<>>, tail |-> <<>>]
    ELSE [ok |-> TRUE, head |-> SubSeq(s, 1, mid), tail |-> SubSeq(s, mid + 1, Len(s))]

\* <[u8]>::split_first()
split_first(s) ==
    IF Len(s) = 0 THEN None ELSE Some(<<Head(s), Tail(s)>>)

IsSuffix(s, t) ==
    Len(s) <= Len(t) /\ s = SubSeq(t, Len(t) - Len(s) + 1, Len(t))

\* ------------------------------------------------------------ the closures
ByteP == [op |-> "byte"]
TakeP(count) == [op |-> "take", count |-> count]
TagP(key) == [op |-> "tag", key |-> key]
NumP(ty) == [op |-> "num", ty |-> ty]
SeqP(count, child) == [op |-> "seq", count |-> count, child |-> child]
OptP(child) == [op |-> "opt", child |-> child]
FinishP(child) == [op |-> "finish", child |-> child]
OrP(one, two) == [op |-> "or", one |-> one, two |-> two]
AndP(one, two) == [op |-> "and", one |-> one, two |-> two]
NoParser == [op |-> "none"]

RECURSIVE Depth(_)
Depth(q) ==
    CASE q.op \in {"seq", "opt", "finish"} -> 1 + Depth(q.child)
      [] q.op \in {"or", "and"} ->
            1 + (IF Depth(q.one) >= Depth(q.two) THEN Depth(q.one) ELSE Depth(q.two))
      [] OTHER -> 0

\* ------------------------------------------------------- number decoders
Pow256(k) == IF k = 0 THEN 1 ELSE IF k = 1 THEN 256 ELSE IF k = 2 THEN 65536 ELSE 16777216

U16L == [name |-> "u16l", size |-> 2, signed |-> FALSE, le |-> TRUE, err |-> "U16LError"]
I16L == [name |-> "i16l", size |-> 2, signed |-> TRUE, le |-> TRUE, err |-> "I16LError"]
U16B == [name |-> "u16b", size |-> 2, signed |-> FALSE, le |-> FALSE, err |-> "U16BError"]
I16B == [name |-> "i16b", size |-> 2, signed |-> TRUE, le |-> FALSE, err |-> "I16BError"]
U32L == [name |-> "u32l", size |-> 4, signed |-> FALSE, le |-> TRUE, err |-> "U32LError"]
I32L == [name |-> "i32l", size |-> 4, signed |-> TRUE, le |-> TRUE, err |-> "I32LError"]
U32B == [name |-> "u32b", size |-> 4, signed |-> FALSE, le |-> FALSE, err |-> "U32BError"]
I32B == [name |-> "i32b", size |-> 4, signed |-> TRUE, le |-> FALSE, err |-> "I32BError"]

NumTypes16 == {U16L, I16L, U16B, I16B}
NumTypes32 == {U32L, I32L, U32B, I32B}

Reverse(s) == [i \in 1..Len(s) |-> s[Len(s) + 1 - i]]

\* The top byte of a signed integer counts as b - 256 when its high bit is set.
RECURSIVE LeSum(_, _, _)
LeSum(b, i, signed) ==
    IF i > Len(b) THEN 0
    ELSE (IF i = Len(b) /\ signed /\ b[i] >= 128 THEN b[i] - 256 ELSE b[i]) * Pow256(i - 1)
         + LeSum(b, i + 1, signed)

\* <$num_ty>::from_le_bytes / from_be_bytes
from_le_bytes(ty, b) == LeSum(b, 1, ty.signed)
from_be_bytes_unreversed(ty, b) == LeSum(b, 1, ty.signed)
from_be_bytes(ty, b) == LeSum(Reverse(b), 1, ty.signed)
endian_fn(ty, b) == IF ty.le THEN from_le_bytes(ty, b) ELSE from_be_bytes(ty, b)

\* <$num_ty>::to_le_bytes / to_be_bytes: the two's complement digits.
to_le_bytes(ty, v) == [i \in 1..ty.size |-> (v \div Pow256(i - 1)) % 256]
to_be_bytes(ty, v) == Reverse(to_le_bytes(ty, v))
to_bytes(ty, v) == IF ty.le THEN to_le_bytes(ty, v) ELSE to_be_bytes(ty, v)

RECURSIVE Apply(_, _)

\* pub fn byte(input)
byte(input) ==
    LET f == split_first(input)
    IN  IF f # None THEN Ok(f[1][2], f[1][1])
        ELSE Err(input, Into(ByteError))

\* take with the tail dropped: the whole input is returned as the rest.
take_no_advance(count, input) ==
    LET s == split_at(input, count)
    IN  IF ~s.ok THEN Panic
        ELSE IF Len(s.head) = 0 /\ count # 0 THEN Err(input, Into(TakeError(input)))
        ELSE Ok(input, s.head)

\* pub fn take(count) -> move |input| ...
\* `let (out, input) = input.split_at(count)` shadows input with the tail.
take(count, input) ==
    LET s == split_at(input, count)
    IN  IF ~s.ok THEN Panic
        ELSE IF Len(s.head) = 0 /\ count # 0 THEN Err(s.tail, Into(TakeError(s.tail)))
        ELSE Ok(s.tail, s.head)

\* the `for step in 0..count` loop of seq
RECURSIVE seq_loop(_, _, _, _, _, _, _)
\* the loop returning the input of the failing repetition instead of `before`.
seq_loop_no_rollback(count, child, before, input, out, step, calls) ==
    IF step >= count THEN WithCalls(Ok(input, out), calls)
    ELSE LET r == Apply(child, input)
             cs == Append(calls, Call(input, r))
         IN  CASE r.kind = "Ok" ->
                    seq_loop(count, child, before, r.rest, Append(out, r.val), step + 1, cs)
               [] r.kind = "Err" ->
                    WithCalls(Err(input, Into(SeqError(input, step, r.val))), cs)
               [] OTHER -> WithCalls(Panic, cs)

seq_loop(count, child, before, input, out, step, calls) ==
    IF step >= count THEN WithCalls(Ok(input, out), calls)
    ELSE LET r == Apply(child, input)
             cs == Append(calls, Call(input, r))
         IN  CASE r.kind = "Ok" ->
                    seq_loop(count, child, before, r.rest, Append(out, r.val), step + 1, cs)
               [] r.kind = "Err" ->
                    WithCalls(Err(before, Into(SeqError(input, step, r.val))), cs)
               [] OTHER -> WithCalls(Panic, cs)

\* pub fn seq(count, child) -> move |mut input| ...
seq(count, child, input) == seq_loop(count, child, input, input, <<>>, 0, <<>>)

\* pub fn opt(child) -> move |input| ...
opt(child, input) ==
    LET r == Apply(child, input)
        cs == <<Call(input, r)>>
    IN  CASE r.kind = "Ok" -> WithCalls(Ok(r.rest, Some(r.val)), cs)
          [] r.kind = "Err" -> WithCalls(Ok(input, None), cs)
          [] OTHER -> WithCalls(Panic, cs)

\* finish returning the child's rest with its FinishError.
finish_keeps_rest(child, input) ==
    LET r == Apply(child, input)
        cs == <<Call(input, r)>>
    IN  CASE r.kind = "Ok" ->
                IF Len(input) = 0 THEN WithCalls(Ok(r.rest, r.val), cs)
                ELSE WithCalls(Err(r.rest, Into(FinishError(input))), cs)
          [] r.kind = "Err" -> WithCalls(Err(input, Into(r.val)), cs)
          [] OTHER -> WithCalls(Panic, cs)

\* pub fn finish(child) -> move |input| ...
finish(child, input) ==
    LET r == Apply(child, input)
        cs == <<Call(input, r)>>
    IN  CASE r.kind = "Ok" ->
                IF Len(input) = 0 THEN WithCalls(Ok(r.rest, r.val), cs)
                ELSE WithCalls(Err(input, Into(FinishError(input))), cs)
          [] r.kind = "Err" -> WithCalls(Err(input, Into(r.val)), cs)
          [] OTHER -> WithCalls(Panic, cs)

\* tag returning take's rest on a mismatch.
tag_keeps_advance(key, input) ==
    LET r == take(Len(key), input)
    IN  CASE r.kind = "Ok" /\ r.val = key -> Ok(r.rest, r.val)
          [] r.kind = "Err" -> Err(input, Into(TagErrorFromTakeError(r.val)))
          [] r.kind = "Panic" -> Panic
          [] OTHER -> Err(r.rest, Into(TagError(input)))

\* pub fn tag(key) -> move |input| match take::<TagError>(key.len())(input) ...
tag(key, input) ==
    LET r == take(Len(key), input)
    IN  CASE r.kind = "Ok" /\ r.val = key -> Ok(r.rest, r.val)
          [] r.kind = "Err" -> Err(input, Into(TagErrorFromTakeError(r.val)))
          [] r.kind = "Panic" -> Panic
          [] OTHER -> Err(input, Into(TagError(input)))

\* pub fn or(one, two) -> move |input| ...
or(one, two, input) ==
    LET r1 == Apply(one, input)
    IN  IF r1.kind = "Panic" THEN WithCalls(Panic, <<Call(input, r1)>>)
        ELSE LET input2 == IF r1.kind = "Ok" THEN r1.rest ELSE input
                 r2 == Apply(two, input2)
                 cs == <<Call(input, r1), Call(input2, r2)>>
             IN  IF r2.kind = "Panic" THEN WithCalls(Panic, cs)
                 ELSE WithCalls(Ok(r2.rest, <<ResultOk(r1), ResultOk(r2)>>), cs)

\* and returning one's rest when two fails.
and_keeps_consumed(one, two, input) ==
    LET before == input
        r1 == Apply(one, input)
    IN  CASE r1.kind = "Ok" ->
                LET r2 == Apply(two, r1.rest)
                    cs == <<Call(input, r1), Call(r1.rest, r2)>>
                IN  CASE r2.kind = "Ok" -> WithCalls(Ok(r2.rest, <<r1.val, r2.val>>), cs)
                      [] r2.kind = "Err" -> WithCalls(Err(r1.rest, Into(r2.val)), cs)
                      [] OTHER -> WithCalls(Panic, cs)
          [] r1.kind = "Err" -> WithCalls(Err(before, Into(r1.val)), <<Call(input, r1)>>)
          [] OTHER -> WithCalls(Panic, <<Call(input, r1)>>)

\* pub fn and(one, two) -> move |input| ...
and(one, two, input) ==
    LET before == input
        r1 == Apply(one, input)
    IN  CASE r1.kind = "Ok" ->
                LET r2 == Apply(two, r1.rest)
                    cs == <<Call(input, r1), Call(r1.rest, r2)>>
                IN  CASE r2.kind = "Ok" -> WithCalls(Ok(r2.rest, <<r1.val, r2.val>>), cs)
                      [] r2.kind = "Err" -> WithCalls(Err(before, Into(r2.val)), cs)
                      [] OTHER -> WithCalls(Panic, cs)
          [] r1.kind = "Err" -> WithCalls(Err(before, Into(r1.val)), <<Call(input, r1)>>)
          [] OTHER -> WithCalls(Panic, <<Call(input, r1)>>)

\* num_impl!: pub fn $fn_name(input)
num(ty, input) ==
    LET s == split_at(input, ty.size)
    IN  IF ~s.ok THEN Panic
        ELSE IF Len(s.head) # ty.size THEN Err(input, Into(NumError(ty, input)))
        ELSE Ok(s.tail, endian_fn(ty, s.head))

\* Calling a closure.
Apply(q, input) ==
    CASE q.op = "byte" -> byte(input)
      [] q.op = "take" -> take(q.count, input)
      [] q.op = "tag" -> tag(q.key, input)
      [] q.op = "num" -> num(q.ty, input)
      [] q.op = "seq" -> seq(q.count, q.child, input)
      [] q.op = "opt" -> opt(q.child, input)
      [] q.op = "finish" -> finish(q.child, input)
      [] q.op = "or" -> or(q.one, q.two, input)
      [] q.op = "and" -> and(q.one, q.two, input)

\* ------------------------------------------------------------------ state
VARIABLES
    input,   \* the buffer handed to the parser
    p,       \* the closure built last
    step,    \* what calling p on input returned
    enc      \* the number whose bytes start the buffer (round trips only)

vars == <<input, p, step, enc>>

NoEnc == [ty |-> U16L, v |-> 0]

Init ==
    /\ input \in Inputs
    /\ p = NoParser
    /\ step = NoStep
    /\ enc = NoEnc

\* Build q and call it on the buffer.
Run(q) ==
    /\ p' = q
    /\ step' = Apply(q, input)
    /\ UNCHANGED <<input, enc>>

\* The parsers given to or and and beside the one built last.
Pool == <<ByteP, TagP(<<1>>)>>
Built == p.op # "none"
\* A combinator may wrap the parser built last while the nesting stays in bounds.
CanWrap == Built /\ Depth(p) < MaxDepth

\* The keys given to tag: empty, one byte, two bytes.
Keys == {<<>>, <<1>>, <<255>>, <<1, 255>>}

\* The leaf parsers are built first; the combinators then wrap what was built.
ByteCall == ~Built /\ Run(ByteP)
TakeCall == ~Built /\ \E count \in 0..MaxCount : Run(TakeP(count))
TagCall == ~Built /\ \E key \in Keys : Run(TagP(key))
NumCall == ~Built /\ \E ty \in NumTypes16 : Run(NumP(ty))
SeqCall == CanWrap /\ \E count \in 0..MaxSeq : Run(SeqP(count, p))
OptCall == CanWrap /\ Run(OptP(p))
FinishCall == CanWrap /\ Run(FinishP(p))
OrCall ==
    \/ ~Built /\ \E i, j \in 1..Len(Pool) : Run(OrP(Pool[i], Pool[j]))
    \/ CanWrap /\ \E i \in 1..Len(Pool) : Run(OrP(p, Pool[i])) \/ Run(OrP(Pool[i], p))
    \/ CanWrap /\ Run(OrP(p, p))
AndCall ==
    \/ ~Built /\ \E i, j \in 1..Len(Pool) : Run(AndP(Pool[i], Pool[j]))
    \/ CanWrap /\ \E i \in 1..Len(Pool) : Run(AndP(p, Pool[i])) \/ Run(AndP(Pool[i], p))
    \/ CanWrap /\ Run(AndP(p, p))

Next ==
    \/ ByteCall
    \/ TakeCall
    \/ TagCall
    \/ NumCall
    \/ SeqCall
    \/ OptCall
    \/ FinishCall
    \/ OrCall
    \/ AndCall

Spec == Init /\ [][Next]_vars

\* ------------------------------------------------------------ round trips
\* Every 16-bit value; of the 32-bit values, those near the byte boundaries
\* (unsigned ones with every byte below 128, which any byte order keeps
\* within 32-bit integers).
Samples(ty) ==
    IF ty.size = 2
    THEN IF ty.signed THEN {-32768, -32767, -256, -129, -128, -1, 0, 1, 127, 128, 255, 256, 1027, 32767}
         ELSE {0, 1, 127, 128, 255, 256, 1027, 32767, 32768, 65280, 65535}
    ELSE IF ty.signed
         THEN {-2147483647 - 1, -2147483647, -16777216, -65536, -256, -1, 0, 1, 255, 256,
               65535, 65536, 16777215, 16777216, 67305985, 2147483647}
         ELSE {0, 1, 127, 256, 32512, 65536, 8323072, 16777216, 67305985, 2130706432, 2139062143}

Values(ty) ==
    IF ty.size = 2
    THEN IF ty.signed THEN -32768..32767 ELSE 0..65535
    ELSE Samples(ty)

TailBytes == {0, 171}

InitNum ==
    /\ \E ty \in NumTypes16 \cup NumTypes32 :
        \E v \in Values(ty) :
            \E tail \in SeqsUpTo(TailBytes, MaxTail) :
                /\ tail = <<>> \/ v \in Samples(ty)
                /\ input = to_bytes(ty, v) \o tail
                /\ enc = [ty |-> ty, v |-> v]
    /\ p = NoParser
    /\ step = NoStep

\* Decode the buffer with the decoder of the type and byte order it was encoded in.
NumDecode ==
    /\ ~Built
    /\ p' = NumP(enc.ty)
    /\ step' = Apply(NumP(enc.ty), input)
    /\ UNCHANGED <<input, enc>>

NextNum == NumDecode

SpecNum == InitNum /\ [][NextNum]_vars

\* ------------------------------------------------------------- the claims
Returned == step.kind \in {"Ok", "Err"}
RestAfter(n) == SubSeq(input, n + 1, Len(input))

\* A primitive that asks for more bytes than the buffer holds.
PastEnd ==
    \/ p.op = "take" /\ p.count > 0 /\ Len(input) < p.count
    \/ p.op = "tag" /\ Len(input) < Len(p.key)
    \/ p.op = "num" /\ Len(input) < p.ty.size

\* C1: a primitive asked for more bytes than remain (take, tag, a number
\* decoder) returns normally, with an error result and the original input as
\* the remaining input.
C1_PastEndIsAnErrorResult ==
    PastEnd => step.kind = "Err" /\ step.rest = input

\* C2: finish(p) succeeds if and only if p succeeds and p's remaining input
\* has zero bytes; when p succeeds with bytes left over it fails with a
\* FinishError.
C2_FinishIffChildConsumesAll ==
    p.op = "finish" =>
        LET c == step.calls[1]
        IN  /\ step.kind = "Ok" <=> (c.kind = "Ok" /\ Len(c.rest) = 0)
            /\ (c.kind = "Ok" /\ Len(c.rest) > 0) =>
                    step.kind = "Err" /\ step.val.err = "FinishError"

\* C3: take(n) on a buffer of at least n bytes (n = 0 on an empty buffer
\* included) succeeds, its output is the first n bytes and the remaining
\* input is the last len - n bytes.
C3_TakeWithinLength ==
    (p.op = "take" /\ p.count <= Len(input)) =>
        /\ step.kind = "Ok"
        /\ step.val = SubSeq(input, 1, p.count)
        /\ step.rest = RestAfter(p.count)
        /\ Len(step.rest) = Len(input) - p.count

C3_Witness ==
    /\ p.op = "take"
    /\ p.count = 2
    /\ Len(input) = 3
    /\ step.kind = "Ok"
    /\ Len(step.rest) = 1

\* C4: on an input of at least len(key) bytes, tag(key) succeeds if and only
\* if the first len(key) bytes equal key; on success it returns that prefix
\* and advances by len(key) bytes; on a mismatch it returns a TagError
\* carrying the original input and the remaining input is the original input.
C4_TagMatchesPrefix ==
    (p.op = "tag" /\ Len(input) >= Len(p.key)) =>
        LET prefix == SubSeq(input, 1, Len(p.key))
        IN  /\ step.kind = "Ok" <=> prefix = p.key
            /\ prefix = p.key =>
                    /\ step.val = prefix
                    /\ step.rest = RestAfter(Len(p.key))
            /\ prefix # p.key =>
                    /\ step.kind = "Err"
                    /\ step.val = TagError(input)
                    /\ step.rest = input

C4_Witness ==
    /\ p.op = "tag"
    /\ Len(p.key) = 2
    /\ Len(input) = 3
    /\ input[1] = p.key[1]
    /\ input[2] # p.key[2]
    /\ step.kind = "Err"

\* C5: seq(count, child) calls child at most count times, each call on the
\* remaining input of the one before.  When all count calls succeed it
\* returns their outputs in call order with the last call's remaining input
\* (count = 0: no call, an empty sequence, the input unchanged).  When the
\* k-th call (from 0) is the first to fail no later call is made, the
\* remaining input is the input before the first call, and the SeqError has
\* step = k, at = the input given to the k-th call, child_error = its error.
C5_SeqRepeatsAndRollsBack ==
    p.op = "seq" =>
        LET cs == step.calls
            n == Len(cs)
        IN  /\ n <= p.count
            /\ \A i \in 1..n :
                    /\ cs[i].at = (IF i = 1 THEN input ELSE cs[i - 1].rest)
                    /\ cs[i] = Call(cs[i].at, Apply(p.child, cs[i].at))
                    /\ i < n => cs[i].kind = "Ok"
            /\ (\A i \in 1..n : cs[i].kind = "Ok") =>
                    /\ n = p.count
                    /\ step.kind = "Ok"
                    /\ step.val = [i \in 1..n |-> cs[i].val]
                    /\ step.rest = (IF n = 0 THEN input ELSE cs[n].rest)
            /\ (n > 0 /\ cs[n].kind = "Err") =>
                    /\ step.kind = "Err"
                    /\ step.rest = input
                    /\ step.val = SeqError(cs[n].at, n - 1, cs[n].val)

C5_Witness ==
    /\ p.op = "seq"
    /\ p.count = 2
    /\ step.kind = "Err"
    /\ step.val.step = 1
    /\ Len(step.val.at) < Len(input)
    /\ step.rest = input

\* C6: and(one, two) runs one on the input and, only when one succeeds, two
\* on one's remaining input; when both succeed it returns both outputs in
\* order with two's remaining input; when either fails it returns that
\* stage's error and the remaining input is the input given to and.
C6_AndRunsBothOrRollsBack ==
    p.op = "and" =>
        LET cs == step.calls
            r1 == Apply(p.one, input)
        IN  /\ cs[1] = Call(input, r1)
            /\ r1.kind = "Err" =>
                    /\ Len(cs) = 1
                    /\ step.kind = "Err"
                    /\ step.val = r1.val
                    /\ step.rest = input
            /\ r1.kind = "Ok" =>
                    LET r2 == Apply(p.two, r1.rest)
                    IN  /\ Len(cs) = 2
                        /\ cs[2] = Call(r1.rest, r2)
                        /\ r2.kind = "Ok" =>
                                /\ step.kind = "Ok"
                                /\ step.val = <<r1.val, r2.val>>
                                /\ step.rest = r2.rest
                        /\ r2.kind = "Err" =>
                                /\ step.kind = "Err"
                                /\ step.val = r2.val
                                /\ step.rest = input

C6_Witness ==
    /\ p.op = "and"
    /\ Len(step.calls) = 2
    /\ step.calls[1].kind = "Ok"
    /\ Len(step.calls[1].rest) < Len(input)
    /\ step.calls[2].kind = "Err"
    /\ step.kind = "Err"
    /\ step.rest = input

\* C7: for every child parser and every input opt(p) returns a success
\* result: None and the original input when p fails, Some of p's value and
\* p's remaining input when p succeeds.
C7_OptAlwaysSucceeds ==
    p.op = "opt" =>
        LET c == step.calls[1]
        IN  /\ step.kind = "Ok"
            /\ c.kind = "Err" => step.val = None /\ step.rest = input
            /\ c.kind = "Ok" => step.val = Some(c.val) /\ step.rest = c.rest

\* C8: on an input where both one and two fail, or(one, two) returns an
\* error result (two's error), not a success carrying two absent outputs.
C8_OrFailsWhenBothFail ==
    (/\ p.op = "or"
     /\ Len(step.calls) = 2
     /\ step.calls[1].kind = "Err"
     /\ step.calls[2].kind = "Err") =>
        step.kind = "Err" /\ step.val = step.calls[2].val

\* C9: decoding the bytes of a value v of an integer type, written in the
\* decoder's byte order, yields v and consumes exactly the first sizeof(T)
\* bytes (zero bytes remain when the buffer holds nothing more).
C9_NumRoundTrip ==
    p.op = "num" =>
        /\ step.kind = "Ok"
        /\ step.val = enc.v
        /\ step.rest = RestAfter(enc.ty.size)
        /\ Len(step.rest) = Len(input) - enc.ty.size

C9_Witness ==
    /\ p.op = "num"
    /\ p.ty = I16B
    /\ enc.v = -129
    /\ Len(input) = 3
    /\ step.kind = "Ok"
    /\ step.val = -129

\* C10: for every parser nested from byte, take, tag, the number decoders,
\* seq, opt, and, or and finish, on every input on which the call returns,
\* the remaining input is a suffix of the input given, and it equals the
\* input given whenever the result is an error.  The same holds of every
\* call the parser made to a child.
C10_CursorDiscipline ==
    /\ Returned =>
            /\ IsSuffix(step.rest, input)
            /\ step.kind = "Err" => step.rest = input
    /\ \A i \in 1..Len(step.calls) :
            step.calls[i].kind \in {"Ok", "Err"} =>
                /\ IsSuffix(step.calls[i].rest, step.calls[i].at)
                /\ IsSuffix(step.calls[i].at, input)
                /\ step.calls[i].kind = "Err" => step.calls[i].rest = step.calls[i].at

C10_Witness ==
    /\ Depth(p) = 2
    /\ p.op = "finish"
    /\ p.child.op = "and"
    /\ step.kind = "Err"
    /\ step.calls[1].kind = "Ok"
    /\ Len(step.calls[1].rest) < Len(input)
    /\ step.rest = input

====
